---------------------------- MODULE Spec2Model ----------------------------
(***************************************************************************)
(* A model of the S-expression parser of lisp-rs (src/src/parser.rs) and   *)
(* of the driver that runs it (src/src/main.rs).                           *)
(*                                                                         *)
(* Text is a sequence of characters (one-character strings); a token is a  *)
(* non-empty sequence of characters.  parse_tokens is modelled as the      *)
(* machine that executes it: a stack of activation frames, one per call,   *)
(* and the value being returned.  tokenize, parse_atom and the two Display *)
(* implementations are functions of their argument and are operators.      *)
(***************************************************************************)
EXTENDS Integers, Sequences, FiniteSets, TLC

(***************************************************************************)
(* Bounds of the model.                                                    *)
(***************************************************************************)
\* longest token sequence handed to parse_tokens by the driver
MaxTokens == 6
\* longest input text handed to tokenize
MaxCodeLen == 5
\* longest token handed to parse_atom, the tokens of BoundaryTokens aside
MaxAtomLen == 3
\* most nodes of a tree handed to the printer
MaxNodes == 5

(***************************************************************************)
(* Characters.                                                             *)
(***************************************************************************)
DigitChars == <<"0", "1", "2", "3", "4", "5", "6", "7", "8", "9">>

Digits == {DigitChars[i] : i \in 1..10}

DigitVal(c) == (CHOOSE i \in 1..10 : DigitChars[i] = c) - 1

DigitChar(n) == DigitChars[n + 1]

\* the characters char::is_whitespace accepts, as far as the inputs use them
Whitespace == {" ", "\n"}

LParen == <<"(">>

RParen == <<")">>

\* ASCII case folding of the letters the float grammar names (eq_ignore_case)
Lower(c) ==
    CASE c = "I" -> "i"
      [] c = "N" -> "n"
      [] c = "F" -> "f"
      [] c = "A" -> "a"
      [] c = "E" -> "e"
      [] c = "T" -> "t"
      [] c = "Y" -> "y"
      [] OTHER -> c

LowerAll(s) == [i \in 1..Len(s) |-> Lower(s[i])]

AllDigits(s) == \A i \in 1..Len(s) : s[i] \in Digits

ToDigits(s) == [i \in 1..Len(s) |-> DigitVal(s[i])]

ToChars(ds) == [i \in 1..Len(ds) |-> DigitChar(ds[i])]

Zeros(n) == [i \in 1..n |-> 0]

RECURSIVE StripLeadingZeros(_)
StripLeadingZeros(ds) ==
    IF ds # <<>> /\ Head(ds) = 0 THEN StripLeadingZeros(Tail(ds)) ELSE ds

RECURSIVE StripTrailingZeros(_)
StripTrailingZeros(ds) ==
    IF ds # <<>> /\ ds[Len(ds)] = 0
    THEN StripTrailingZeros(SubSeq(ds, 1, Len(ds) - 1))
    ELSE ds

\* number of trailing zero digits of ds
TrailingZeros(ds) == Len(ds) - Len(StripTrailingZeros(ds))

(***************************************************************************)
(* isize: a 64-bit two's complement integer, held as sign and magnitude.   *)
(* The magnitude is its decimal digits without leading zeros (<<>> is 0).  *)
(***************************************************************************)
ISizeMaxMag == <<9,2,2,3,3,7,2,0,3,6,8,5,4,7,7,5,8,0,7>>

ISizeMinMag == <<9,2,2,3,3,7,2,0,3,6,8,5,4,7,7,5,8,0,8>>

RECURSIVE LexLE(_, _)
LexLE(a, b) ==
    IF a = <<>> THEN TRUE
    ELSE IF Head(a) # Head(b) THEN Head(a) < Head(b)
    ELSE LexLE(Tail(a), Tail(b))

\* a <= b for magnitudes without leading zeros
MagLE(a, b) == Len(a) < Len(b) \/ (Len(a) = Len(b) /\ LexLE(a, b))

\* FitsISize with the range taken to be symmetric
FitsISize_Symmetric(neg, mag) == MagLE(mag, ISizeMaxMag)

\* the checked accumulation of str::parse::<isize> overflows or not
FitsISize(neg, mag) == MagLE(mag, IF neg THEN ISizeMinMag ELSE ISizeMaxMag)

(***************************************************************************)
(* str::parse::<isize>: an optional sign, then one or more decimal digits, *)
(* the value within the range of isize.                                    *)
(***************************************************************************)
ParseInt(tok) ==
    LET signed == tok # <<>> /\ Head(tok) \in {"+", "-"}
        body   == IF signed THEN Tail(tok) ELSE tok
        neg    == signed /\ Head(tok) = "-"
        mag    == StripLeadingZeros(ToDigits(body))
    IN  IF body = <<>> \/ ~AllDigits(body) THEN [ok |-> FALSE]
        ELSE IF ~FitsISize(neg, mag) THEN [ok |-> FALSE]
        ELSE [ok |-> TRUE, neg |-> neg /\ mag # <<>>, mag |-> mag]

(***************************************************************************)
(* str::parse::<f64>: Sign? ('inf' | 'infinity' | 'nan' | Number), letters *)
(* in either case; Number is digits with at most one '.', at least one     *)
(* digit, and an optional exponent 'e' Sign? Digit+.                       *)
(* A finite value is held as mant * 10^exp, mant without leading or        *)
(* trailing zeros: the f64 nearest to that decimal.  Two literals of at    *)
(* most 15 significant digits name the same f64 exactly when these agree.  *)
(***************************************************************************)
\* position of the first 'e' or 'E' of s, or 0
ExpMark(s) ==
    IF \E i \in 1..Len(s) : Lower(s[i]) = "e"
    THEN CHOOSE i \in 1..Len(s) :
            Lower(s[i]) = "e" /\ \A j \in 1..(i - 1) : Lower(s[j]) # "e"
    ELSE 0

\* position of the first '.' of s, or 0
DotMark(s) ==
    IF \E i \in 1..Len(s) : s[i] = "."
    THEN CHOOSE i \in 1..Len(s) : s[i] = "." /\ \A j \in 1..(i - 1) : s[j] # "."
    ELSE 0

RECURSIVE DigitsToNat(_)
DigitsToNat(ds) ==
    IF ds = <<>> THEN 0 ELSE 10 * DigitsToNat(SubSeq(ds, 1, Len(ds) - 1)) + ds[Len(ds)]

ParseNumber(s) ==
    LET e       == ExpMark(s)
        mtxt    == IF e = 0 THEN s ELSE SubSeq(s, 1, e - 1)
        etxt    == IF e = 0 THEN <<>> ELSE SubSeq(s, e + 1, Len(s))
        d       == DotMark(mtxt)
        itxt    == IF d = 0 THEN mtxt ELSE SubSeq(mtxt, 1, d - 1)
        ftxt    == IF d = 0 THEN <<>> ELSE SubSeq(mtxt, d + 1, Len(mtxt))
        esigned == etxt # <<>> /\ Head(etxt) \in {"+", "-"}
        edig    == IF esigned THEN Tail(etxt) ELSE etxt
        mantOk  == AllDigits(itxt) /\ AllDigits(ftxt) /\ Len(itxt) + Len(ftxt) > 0
        expOk   == e = 0 \/ (edig # <<>> /\ AllDigits(edig))
    IN  IF ~(mantOk /\ expOk) THEN [ok |-> FALSE]
        ELSE LET all  == StripLeadingZeros(ToDigits(itxt \o ftxt))
                 mant == StripTrailingZeros(all)
                 eabs == DigitsToNat(ToDigits(edig))
                 eval == IF esigned /\ Head(etxt) = "-" THEN 0 - eabs ELSE eabs
             IN  [ok |-> TRUE, mant |-> mant,
                  exp |-> IF mant = <<>> THEN 0
                          ELSE eval - Len(ftxt) + TrailingZeros(all)]

ParseFloat(tok) ==
    LET signed == tok # <<>> /\ Head(tok) \in {"+", "-"}
        body   == IF signed THEN Tail(tok) ELSE tok
        neg    == signed /\ Head(tok) = "-"
        num    == ParseNumber(body)
        low    == LowerAll(body)
    IN  IF body = <<>> THEN [ok |-> FALSE]
        ELSE IF num.ok
        THEN [ok |-> TRUE, cls |-> "num", neg |-> neg, mant |-> num.mant, exp |-> num.exp]
        ELSE IF low = <<"n", "a", "n">>
        THEN [ok |-> TRUE, cls |-> "nan", neg |-> FALSE, mant |-> <<>>, exp |-> 0]
        ELSE IF low = <<"i", "n", "f">> \/ low = <<"i", "n", "f", "i", "n", "i", "t", "y">>
        THEN [ok |-> TRUE, cls |-> "inf", neg |-> neg, mant |-> <<>>, exp |-> 0]
        ELSE [ok |-> FALSE]

(***************************************************************************)
(* The tree: Node and Atom.                                                *)
(***************************************************************************)
AtomInt(neg, mag) == [kind |-> "Int", neg |-> neg, mag |-> mag]

AtomFloat(cls, neg, mant, exp) ==
    [kind |-> "Float", cls |-> cls, neg |-> neg, mant |-> mant, exp |-> exp]

AtomSymbol(text) == [kind |-> "Symbol", text |-> text]

NodeAtom(a) == [type |-> "Atom", atom |-> a]

NodeList(v) == [type |-> "List", items |-> v]

(***************************************************************************)
(* parse_atom: the integer parse first, then the float parse, else the     *)
(* token itself as a symbol.                                               *)
(***************************************************************************)
parse_atom(atom) ==
    LET integer == ParseInt(atom)
        float   == ParseFloat(atom)
    IN  IF integer.ok THEN AtomInt(integer.neg, integer.mag)
        ELSE IF float.ok THEN AtomFloat(float.cls, float.neg, float.mant, float.exp)
        ELSE AtomSymbol(atom)

(***************************************************************************)
(* impl fmt::Display for isize, f64, Atom and Node.                        *)
(***************************************************************************)
DisplayInt(a) ==
    IF a.mag = <<>> THEN <<"0">>
    ELSE (IF a.neg THEN <<"-">> ELSE <<>>) \o ToChars(a.mag)

\* the digits of mant * 10^exp in positional notation, without an exponent
Positional(mant, exp) ==
    IF mant = <<>> THEN <<"0">>
    ELSE IF exp >= 0 THEN ToChars(mant \o Zeros(exp))
    ELSE IF Len(mant) > 0 - exp
    THEN ToChars(SubSeq(mant, 1, Len(mant) + exp)) \o <<".">>
            \o ToChars(SubSeq(mant, Len(mant) + exp + 1, Len(mant)))
    ELSE <<"0", ".">> \o ToChars(Zeros((0 - exp) - Len(mant)) \o mant)

DisplayFloat(a) ==
    CASE a.cls = "nan" -> <<"N", "a", "N">>
      [] a.cls = "inf" -> (IF a.neg THEN <<"-">> ELSE <<>>) \o <<"i", "n", "f">>
      [] OTHER -> (IF a.neg THEN <<"-">> ELSE <<>>) \o Positional(a.mant, a.exp)

\* Display for Atom that writes a symbol without the quotes
DisplayAtom_Bare(a) ==
    CASE a.kind = "Int" -> DisplayInt(a)
      [] a.kind = "Float" -> <<"f">> \o DisplayFloat(a)
      [] OTHER -> a.text

DisplayAtom(a) ==
    CASE a.kind = "Int" -> DisplayInt(a)
      [] a.kind = "Float" -> <<"f">> \o DisplayFloat(a)
      [] OTHER -> <<"\"">> \o a.text \o <<"\"">>

\* join that writes the separator after every string
RECURSIVE Join_Trailing(_, _)
Join_Trailing(strs, sep) ==
    IF strs = <<>> THEN <<>> ELSE strs[1] \o sep \o Join_Trailing(Tail(strs), sep)

\* [String]::join(sep)
RECURSIVE Join(_, _)
Join(strs, sep) ==
    IF strs = <<>> THEN <<>>
    ELSE IF Len(strs) = 1 THEN strs[1]
    ELSE strs[1] \o sep \o Join(Tail(strs), sep)

RECURSIVE DisplayNode(_)
DisplayNode(n) ==
    IF n.type = "List"
    THEN <<"(">> \o Join([i \in 1..Len(n.items) |-> DisplayNode(n.items[i])], <<" ">>)
            \o <<")">>
    ELSE DisplayAtom(n.atom)

(***************************************************************************)
(* tokenize: trim, put a space on both sides of every paren, split on runs *)
(* of whitespace.                                                          *)
(***************************************************************************)
RECURSIVE TrimStart(_)
TrimStart(s) ==
    IF s # <<>> /\ Head(s) \in Whitespace THEN TrimStart(Tail(s)) ELSE s

RECURSIVE TrimEnd(_)
TrimEnd(s) ==
    IF s # <<>> /\ s[Len(s)] \in Whitespace
    THEN TrimEnd(SubSeq(s, 1, Len(s) - 1))
    ELSE s

Trim(s) == TrimEnd(TrimStart(s))

\* str::replace of the one-character pattern from by the text to
RECURSIVE Replace(_, _, _)
Replace(s, from, to) ==
    IF s = <<>> THEN <<>>
    ELSE (IF Head(s) = from THEN to ELSE <<Head(s)>>) \o Replace(Tail(s), from, to)

\* the longest prefix of s without whitespace
RECURSIVE Word(_)
Word(s) ==
    IF s = <<>> \/ Head(s) \in Whitespace THEN <<>> ELSE <<Head(s)>> \o Word(Tail(s))

\* str::split_whitespace: the maximal runs of non-whitespace, in order
RECURSIVE SplitWhitespace(_)
SplitWhitespace(s) ==
    IF s = <<>> THEN <<>>
    ELSE IF Head(s) \in Whitespace THEN SplitWhitespace(Tail(s))
    ELSE <<Word(s)>> \o SplitWhitespace(SubSeq(s, Len(Word(s)) + 1, Len(s)))

\* tokenize that sets only '(' apart
tokenize_OpenOnly(code) ==
    SplitWhitespace(Replace(Trim(code), "(", <<" ", "(", " ">>))

tokenize(code) ==
    SplitWhitespace(
        Replace(Replace(Trim(code), "(", <<" ", "(", " ">>), ")", <<" ", ")", " ">>))

(***************************************************************************)
(* find_matching_paren: the index (from 0) of the first ')' met while      *)
(* num_parens is 1, counting '(' up and every other ')' down; None is -1.  *)
(***************************************************************************)
None == 0 - 1

RECURSIVE FindFrom(_, _, _)
FindFrom(toks, idx, num_parens) ==
    IF idx >= Len(toks) THEN None
    ELSE IF toks[idx + 1] = LParen THEN FindFrom(toks, idx + 1, num_parens + 1)
    ELSE IF toks[idx + 1] = RParen
    THEN IF num_parens = 1 THEN idx ELSE FindFrom(toks, idx + 1, num_parens - 1)
    ELSE FindFrom(toks, idx + 1, num_parens)

\* find_matching_paren that stops at the first ')'
find_matching_paren_FirstClose(toks) ==
    IF \E i \in 1..Len(toks) : toks[i] = RParen
    THEN (CHOOSE i \in 1..Len(toks) :
            toks[i] = RParen /\ \A j \in 1..(i - 1) : toks[j] # RParen) - 1
    ELSE None

\* find_matching_paren that counts the index from 1
find_matching_paren_FromOne(toks) ==
    IF FindFrom(toks, 0, 0) = None THEN None ELSE FindFrom(toks, 0, 0) + 1

find_matching_paren(toks) == FindFrom(toks, 0, 0)

(***************************************************************************)
(* The state of a run of the driver.                                       *)
(***************************************************************************)
VARIABLES
    code,     \* the text given to parse_sexpr
    tokens,   \* the token sequence given to the outermost parse_tokens
    stack,    \* the activation frames of parse_tokens, innermost last
    retval,   \* the Result a parse_tokens call is returning to its caller
    result,   \* the Result parse_sexpr returned
    ast,      \* the Node the driver holds
    printed,  \* the text the driver printed for ast
    pc        \* the driver's position

vars == <<code, tokens, stack, retval, result, ast, printed, pc>>

Ok(node) == [tag |-> "Ok", node |-> node]

Err(e) == [tag |-> "Err", err |-> e]

NoResult == [tag |-> "None"]

NoNode == [type |-> "None"]

NoText == <<>>

\* the frame of a call parse_tokens(toks), about to run its first line
NewFrame(toks) ==
    [tokens |-> toks, at |-> "entry", inner |-> <<>>, element_start |-> 0,
     element_end |-> 0, parsed_list |-> <<>>]

Top == stack[Len(stack)]

Pop == SubSeq(stack, 1, Len(stack) - 1)

Running == pc \in {"parse", "reparse"} /\ stack # <<>> /\ retval = NoResult

\* the innermost call returns v to its caller
Return(v) ==
    /\ stack' = Pop
    /\ retval' = v
    /\ UNCHANGED <<code, tokens, result, ast, printed, pc>>

\* the innermost call goes on with frame f
Continue(f) ==
    /\ stack' = [stack EXCEPT ![Len(stack)] = f]
    /\ UNCHANGED <<code, tokens, retval, result, ast, printed, pc>>

\* an index or a slice out of range: the thread panics
Panic ==
    /\ pc' = "panic"
    /\ UNCHANGED <<code, tokens, stack, retval, result, ast, printed>>

(***************************************************************************)
(* parse_sexpr: tokenize the text and call parse_tokens on the tokens.     *)
(***************************************************************************)
AtStart == pc = "start"

ParseSexpr ==
    /\ AtStart
    /\ tokens' = tokenize(code)
    /\ stack' = <<NewFrame(tokens')>>
    /\ pc' = "parse"
    /\ UNCHANGED <<code, retval, result, ast, printed>>

(***************************************************************************)
(* parse_tokens, lines 8-27: the cases decided before the element scan.    *)
(***************************************************************************)
\* a call is about to run its first line
Entered == Running /\ Top.at = "entry"

\* line 8, 16: tokens.first() is None
NoFirst == Entered /\ Top.tokens = <<>>

\* line 9: the first token is not "("
FirstNotOpen == Entered /\ Top.tokens # <<>> /\ Head(Top.tokens) # LParen

\* line 10: the call is given one token, and it is not ")"
LoneAtom == FirstNotOpen /\ Len(Top.tokens) = 1 /\ Head(Top.tokens) # RParen

\* line 10, else
NotLoneAtom == FirstNotOpen /\ ~(Len(Top.tokens) = 1 /\ Head(Top.tokens) # RParen)

FirstOpen == Entered /\ Top.tokens # <<>> /\ Head(Top.tokens) = LParen

\* line 20: the last token is not ")"
LastNotClose == FirstOpen /\ Top.tokens[Len(Top.tokens)] # RParen

LastClose == FirstOpen /\ Top.tokens[Len(Top.tokens)] = RParen

EnterEmpty ==
    /\ NoFirst
    /\ Return(Err("Empty"))

\* EnterAtom without the test first != ")"
EnterAtom_AnyToken ==
    /\ Running /\ Top.at = "entry"
    /\ Top.tokens # <<>>
    /\ Head(Top.tokens) # LParen
    /\ Len(Top.tokens) = 1
    /\ Return(Ok(NodeAtom(parse_atom(Head(Top.tokens)))))

EnterAtom ==
    /\ LoneAtom
    /\ Return(Ok(NodeAtom(parse_atom(Head(Top.tokens)))))

EnterStray ==
    /\ NotLoneAtom
    /\ Return(Err("UnmatchedParen"))

EnterNoClose ==
    /\ LastNotClose
    /\ Return(Err("UnmatchedParen"))

EnterList ==
    /\ LastClose
    /\ IF 1 > Len(Top.tokens) - 1
       THEN Panic
       ELSE Continue([Top EXCEPT !.at = "loop",
                                 !.inner = SubSeq(Top.tokens, 2, Len(Top.tokens) - 1),
                                 !.parsed_list = <<>>,
                                 !.element_start = 0])

(***************************************************************************)
(* parse_tokens, lines 29-47: the element scan.                            *)
(***************************************************************************)
\* inner_sexpr_tokens[element_start..]
Rest(f) == SubSeq(f.inner, f.element_start + 1, Len(f.inner))

\* lines 32-38, when find_matching_paren finds what it looks for
ElementEnd(f) ==
    f.element_start
        + (IF f.inner[f.element_start + 1] = LParen
           THEN find_matching_paren(Rest(f))
           ELSE 0)

\* Element with the range element_start..element_end, its end left out
Element_Exclusive(f, element_end) == SubSeq(f.inner, f.element_start + 1, element_end)

\* line 41: inner_sexpr_tokens[element_start..=element_end]
Element(f, element_end) == SubSeq(f.inner, f.element_start + 1, element_end + 1)

\* line 29: the loop goes on
MoreElements == Running /\ Top.at = "loop" /\ Top.element_start < Len(Top.inner)

\* line 29: the loop ends
NoMoreElements == Running /\ Top.at = "loop" /\ ~(Top.element_start < Len(Top.inner))

\* line 35: find_matching_paren returned None
NoMatch ==
    /\ MoreElements
    /\ Top.inner[Top.element_start + 1] = LParen
    /\ find_matching_paren(Rest(Top)) = None

\* lines 33-38: the element's end is found
ElementFound ==
    /\ MoreElements
    /\ Top.inner[Top.element_start + 1] = LParen => find_matching_paren(Rest(Top)) # None

ScanNoMatch ==
    /\ NoMatch
    /\ Return(Err("UnmatchedParen"))

ScanCall ==
    /\ ElementFound
    /\ LET element_end == ElementEnd(Top)
       IN  IF element_end >= Len(Top.inner) \/ Top.element_start > element_end + 1
           THEN Panic
           ELSE /\ stack' = [stack EXCEPT ![Len(stack)] =
                                [Top EXCEPT !.at = "call", !.element_end = element_end]]
                            \o <<NewFrame(Element(Top, element_end))>>
                /\ UNCHANGED <<code, tokens, retval, result, ast, printed, pc>>

ScanDone ==
    /\ NoMoreElements
    /\ Return(Ok(NodeList(Top.parsed_list)))

\* a recursive call has returned to the call that made it
Returned == pc \in {"parse", "reparse"} /\ stack # <<>> /\ retval # NoResult

\* the outermost call has returned
ReturnedToDriver == pc \in {"parse", "reparse"} /\ stack = <<>> /\ retval # NoResult

\* ResumeOk with the element put in front of the list
ResumeOk_Prepend ==
    /\ Returned
    /\ retval.tag = "Ok"
    /\ stack' = [stack EXCEPT ![Len(stack)] =
                    [Top EXCEPT !.at = "loop",
                                !.parsed_list = <<retval.node>> \o Top.parsed_list,
                                !.element_start = Top.element_end + 1]]
    /\ retval' = NoResult
    /\ UNCHANGED <<code, tokens, result, ast, printed, pc>>

\* line 40-44: the recursive call returned Ok
\* ResumeOk with the scan left at the element's last token
ResumeOk_Stay ==
    /\ Returned
    /\ retval.tag = "Ok"
    /\ stack' = [stack EXCEPT ![Len(stack)] =
                    [Top EXCEPT !.at = "loop",
                                !.parsed_list = Append(Top.parsed_list, retval.node),
                                !.element_start = Top.element_end]]
    /\ retval' = NoResult
    /\ UNCHANGED <<code, tokens, result, ast, printed, pc>>

ResumeOk ==
    /\ Returned
    /\ retval.tag = "Ok"
    /\ stack' = [stack EXCEPT ![Len(stack)] =
                    [Top EXCEPT !.at = "loop",
                                !.parsed_list = Append(Top.parsed_list, retval.node),
                                !.element_start = Top.element_end + 1]]
    /\ retval' = NoResult
    /\ UNCHANGED <<code, tokens, result, ast, printed, pc>>

\* line 42: the recursive call returned Err, and ? returns it from this call
ResumeErr ==
    /\ Returned
    /\ retval.tag = "Err"
    /\ stack' = Pop
    /\ UNCHANGED <<code, tokens, retval, result, ast, printed, pc>>

(***************************************************************************)
(* main: parse the input, leave with the error or print the tree.          *)
(***************************************************************************)
ParseOk ==
    /\ ReturnedToDriver
    /\ pc = "parse"
    /\ retval.tag = "Ok"
    /\ result' = retval
    /\ ast' = retval.node
    /\ retval' = NoResult
    /\ pc' = "print"
    /\ UNCHANGED <<code, tokens, stack, printed>>

ParseErr ==
    /\ ReturnedToDriver
    /\ pc = "parse"
    /\ retval.tag = "Err"
    /\ result' = retval
    /\ retval' = NoResult
    /\ pc' = "exit"
    /\ UNCHANGED <<code, tokens, stack, ast, printed>>

PrintAst ==
    /\ pc = "print"
    /\ printed' = DisplayNode(ast)
    /\ pc' = "printed"
    /\ UNCHANGED <<code, tokens, stack, retval, result, ast>>

(***************************************************************************)
(* The printed text given to parse_sexpr again.                            *)
(***************************************************************************)
Reparse ==
    /\ pc = "printed"
    /\ code' = printed
    /\ tokens' = tokenize(printed)
    /\ stack' = <<NewFrame(tokens')>>
    /\ result' = NoResult
    /\ pc' = "reparse"
    /\ UNCHANGED <<retval, ast, printed>>

ReparseDone ==
    /\ ReturnedToDriver
    /\ pc = "reparse"
    /\ result' = retval
    /\ retval' = NoResult
    /\ pc' = "done"
    /\ UNCHANGED <<code, tokens, stack, ast, printed>>

Next ==
    \/ ParseSexpr
    \/ EnterEmpty \/ EnterAtom \/ EnterStray \/ EnterNoClose \/ EnterList
    \/ ScanNoMatch \/ ScanCall \/ ScanDone
    \/ ResumeOk \/ ResumeErr
    \/ ParseOk \/ ParseErr \/ PrintAst
    \/ Reparse \/ ReparseDone

(***************************************************************************)
(* Inputs.                                                                 *)
(***************************************************************************)
SeqsUpTo(S, n) == UNION {[1..k -> S] : k \in 0..n}

\* atoms of each kind: an Int written with a sign and a leading zero, a Float, a Symbol
AtomSamples == {<<"-", "0", "7">>, <<".", "5">>, <<"a">>}

ParserTokens == {LParen, RParen} \cup AtomSamples

\* the text whose tokens are toks, one space between two tokens
Unwords(toks) == Join(toks, <<" ">>)

Start(text) ==
    /\ code = text
    /\ tokens = <<>>
    /\ stack = <<>>
    /\ retval = NoResult
    /\ result = NoResult
    /\ ast = NoNode
    /\ printed = NoText
    /\ pc = "start"

\* the driver is given the text of any sequence of at most MaxTokens tokens
Init == \E toks \in SeqsUpTo(ParserTokens, MaxTokens) : Start(Unwords(toks))

Spec == Init /\ [][Next]_vars

\* the driver is given any text of at most MaxCodeLen characters
CodeChars == {"(", ")", " ", "\n", "a", "1"}

InitText == \E text \in SeqsUpTo(CodeChars, MaxCodeLen) : Start(text)

SpecText == InitText /\ [][Next]_vars

\* parse_tokens is given one token, neither paren nor empty nor with whitespace
AtomChars == {"-", "+", "0", "7", ".", "e", "i", "n", "f", "a"}

\* tokens at the two ends of the range of isize, and beyond them
BoundaryTokens ==
    {ToChars(ISizeMaxMag), ToChars(ISizeMinMag),
     <<"-">> \o ToChars(ISizeMaxMag), <<"-">> \o ToChars(ISizeMinMag),
     <<"0">> \o ToChars(ISizeMaxMag), <<"-", "0">> \o ToChars(ISizeMinMag),
     <<"-">> \o ToChars(SubSeq(ISizeMinMag, 1, 18)) \o <<"9">>,
     ToChars(ISizeMaxMag) \o <<"0">>, <<"-">> \o ToChars(ISizeMaxMag) \o <<"0">>,
     ToChars(SubSeq(ISizeMaxMag, 1, 18))}

AtomTokens(n) == (SeqsUpTo(AtomChars, n) \ {<<>>}) \cup BoundaryTokens

InitAtom ==
    \E tok \in AtomTokens(MaxAtomLen) :
        /\ code = tok
        /\ tokens = <<tok>>
        /\ stack = <<NewFrame(tokens)>>
        /\ retval = NoResult
        /\ result = NoResult
        /\ ast = NoNode
        /\ printed = NoText
        /\ pc = "parse"

NextAtom == EnterAtom \/ ParseOk

SpecAtom == InitAtom /\ [][NextAtom]_vars

\* the printer is given any atom of PrinterAtoms, and any tree of at most
\* MaxNodes nodes whose atoms are among TreeAtoms
PrinterAtoms ==
    {AtomInt(FALSE, <<>>), AtomInt(TRUE, <<7>>), AtomInt(FALSE, <<1, 0>>),
     AtomFloat("num", FALSE, <<5>>, 0 - 1), AtomFloat("num", TRUE, <<>>, 0),
     AtomFloat("num", FALSE, <<1, 2>>, 1), AtomFloat("num", TRUE, <<7>>, 0 - 3),
     AtomFloat("inf", TRUE, <<>>, 0), AtomFloat("nan", FALSE, <<>>, 0),
     AtomSymbol(<<"a">>), AtomSymbol(<<>>), AtomSymbol(<<"a", " ", "\"", "(">>)}

TreeAtoms ==
    {AtomInt(TRUE, <<7>>), AtomFloat("num", FALSE, <<5>>, 0 - 1),
     AtomSymbol(<<"a", " ", "\"", "(">>)}

RECURSIVE TreesOf(_), ForestsOf(_)
\* the trees of exactly n nodes
TreesOf(n) ==
    IF n = 1 THEN {NodeAtom(a) : a \in TreeAtoms} \cup {NodeList(<<>>)}
    ELSE {NodeList(f) : f \in ForestsOf(n - 1)}

\* the non-empty sequences of trees of n nodes in all
ForestsOf(n) ==
    UNION {{<<t>> \o f : t \in TreesOf(m),
                         f \in IF m = n THEN {<<>>} ELSE ForestsOf(n - m)} : m \in 1..n}

Trees(n) == UNION {TreesOf(k) : k \in 1..n} \cup {NodeAtom(a) : a \in PrinterAtoms}

InitRender ==
    \E t \in Trees(MaxNodes) :
        /\ code = NoText
        /\ tokens = <<>>
        /\ stack = <<>>
        /\ retval = NoResult
        /\ result = Ok(t)
        /\ ast = t
        /\ printed = NoText
        /\ pc = "print"

NextRender == PrintAst

SpecRender == InitRender /\ [][NextRender]_vars

(***************************************************************************)
(* What the claims speak of, stated without the parser.                    *)
(***************************************************************************)
IsParen(tok) == tok = LParen \/ tok = RParen

\* a form is a non-paren token, or '(' forms ')'
RECURSIVE OneForm(_), Forms(_)
OneForm(ts) ==
    \/ Len(ts) = 1 /\ ~IsParen(ts[1])
    \/ /\ Len(ts) >= 2
       /\ ts[1] = LParen
       /\ ts[Len(ts)] = RParen
       /\ Forms(SubSeq(ts, 2, Len(ts) - 1))

Forms(ts) ==
    \/ ts = <<>>
    \/ \E k \in 1..Len(ts) :
          OneForm(SubSeq(ts, 1, k)) /\ Forms(SubSeq(ts, k + 1, Len(ts)))

\* the number of tokens of a tree written as tokens
RECURSIVE TokLen(_)
TokLen(n) ==
    IF n.type = "Atom" THEN 1
    ELSE 2 + (LET RECURSIVE Sum(_)
                  Sum(i) == IF i = 0 THEN 0 ELSE Sum(i - 1) + TokLen(n.items[i])
              IN  Sum(Len(n.items)))

\* the tokens before child i of a list, its '(' counted
RECURSIVE Offset(_, _)
Offset(n, i) == IF i = 1 THEN 1 ELSE Offset(n, i - 1) + TokLen(n.items[i - 1])

\* the tree n is the token sequence ts, form by form and in order
RECURSIVE Mirror(_, _)
Mirror(n, ts) ==
    IF n.type = "Atom"
    THEN Len(ts) = 1 /\ ~IsParen(ts[1]) /\ n.atom = parse_atom(ts[1])
    ELSE /\ n.type = "List"
         /\ Len(ts) = TokLen(n)
         /\ ts[1] = LParen
         /\ ts[Len(ts)] = RParen
         /\ \A i \in 1..Len(n.items) :
               Mirror(n.items[i],
                      SubSeq(ts, Offset(n, i) + 1, Offset(n, i) + TokLen(n.items[i])))

Finished == result # NoResult

(***************************************************************************)
(* C1: every non-empty token sequence that is not exactly one well-formed  *)
(* form makes parse return the error UnmatchedParen, and no Node.          *)
(***************************************************************************)
C1_MalformedIsUnmatchedParen ==
    (Finished /\ tokens # <<>> /\ ~OneForm(tokens)) =>
        /\ result = Err("UnmatchedParen")
        /\ pc = "exit" => ast = NoNode

\* two balanced forms side by side, '(' first and ')' last, were rejected
C1_Witness ==
    /\ pc = "exit"
    /\ tokens = <<LParen, <<"a">>, RParen, LParen, <<"a">>, RParen>>
    /\ result = Err("UnmatchedParen")

(***************************************************************************)
(* C2: every well-formed token sequence parses, to the tree that mirrors   *)
(* it: an Atom of the token for a non-paren token, a List of the parses of *)
(* the elements in order for a parenthesised form; written back as tokens  *)
(* the tree is the input.                                                  *)
(***************************************************************************)
C2_WellFormedMirrors ==
    (Finished /\ OneForm(tokens)) =>
        /\ result.tag = "Ok"
        /\ Mirror(result.node, tokens)

\* a list of an atom and a nested list was parsed
C2_Witness ==
    /\ pc = "print"
    /\ tokens = <<LParen, <<"a">>, LParen, <<"-", "0", "7">>, RParen, RParen>>
    /\ ast = NodeList(<<NodeAtom(AtomSymbol(<<"a">>)),
                        NodeList(<<NodeAtom(AtomInt(TRUE, <<7>>))>>)>>)

(***************************************************************************)
(* C3: parse returns Empty exactly when the text holds no token (it is     *)
(* empty or all whitespace), and no recursive call of parse_tokens is      *)
(* given an empty slice: an empty list never produces Empty.               *)
(***************************************************************************)
C3_EmptyIffNoTokens ==
    /\ Finished =>
          (result = Err("Empty") <=> \A i \in 1..Len(code) : code[i] \in Whitespace)
    /\ \A i \in 2..Len(stack) : stack[i].tokens # <<>>

\* a text of whitespace alone was refused as Empty
C3_Witness ==
    /\ pc = "exit"
    /\ Len(code) >= 2
    /\ result = Err("Empty")

(***************************************************************************)
(* C4, as claimed: every token of integer syntax (an optional '-', then    *)
(* digits only) is classified Int, whatever its value.                     *)
(***************************************************************************)
IntShaped(tok) ==
    LET body == IF Head(tok) = "-" THEN Tail(tok) ELSE tok
    IN  body # <<>> /\ AllDigits(body)

\* the value of an integer-shaped token is within the range of isize
InRange(tok) ==
    LET neg == Head(tok) = "-"
        mag == StripLeadingZeros(ToDigits(IF neg THEN Tail(tok) ELSE tok))
    IN  IF neg THEN MagLE(mag, ISizeMinMag) ELSE MagLE(mag, ISizeMaxMag)

Classified == pc = "print" /\ Len(tokens) = 1 /\ ast.type = "Atom"

C4_IntShapedIsInt ==
    (Classified /\ IntShaped(tokens[1])) => ast.atom.kind = "Int"

(***************************************************************************)
(* C4, amended: every token of integer syntax whose value is within the    *)
(* range of isize is classified Int; one whose value is outside the range  *)
(* is classified Float.                                                    *)
(***************************************************************************)
C4_IntShapedInRangeIsInt ==
    (Classified /\ IntShaped(tokens[1])) =>
        ast.atom.kind = (IF InRange(tokens[1]) THEN "Int" ELSE "Float")

\* the least isize, written out, was classified Int
C4_Witness ==
    /\ Classified
    /\ tokens[1] = <<"-">> \o ToChars(ISizeMinMag)
    /\ ast.atom = AtomInt(TRUE, ISizeMinMag)

(***************************************************************************)
(* C5: tokenize never fails and returns, in the order of the text, one     *)
(* token for every paren and one for every maximal run of characters that  *)
(* are neither whitespace nor parens; no token is empty or holds           *)
(* whitespace, none but '(' and ')' holds a paren, and the empty text has  *)
(* no tokens.                                                              *)
(***************************************************************************)
IsParenChar(c) == c \in {"(", ")"}

IsAtomChar(c) == c \notin Whitespace /\ ~IsParenChar(c)

\* where a token starts: at a paren, or at the first character of a run
TokenStarts(text) ==
    {i \in 1..Len(text) :
        \/ IsParenChar(text[i])
        \/ IsAtomChar(text[i]) /\ (i = 1 \/ ~IsAtomChar(text[i - 1]))}

\* where the token that starts at i ends
TokenEnd(text, i) ==
    IF IsParenChar(text[i]) THEN i
    ELSE CHOOSE j \in i..Len(text) :
            /\ \A k \in i..j : IsAtomChar(text[k])
            /\ j = Len(text) \/ ~IsAtomChar(text[j + 1])

\* the k-th least member of the set of numbers S
Kth(S, k) == CHOOSE i \in S : Cardinality({j \in S : j < i}) = k - 1

C5_TokensAreParensAndRuns ==
    pc # "start" =>
        /\ Len(tokens) = Cardinality(TokenStarts(code))
        /\ \A k \in 1..Len(tokens) :
              LET i == Kth(TokenStarts(code), k)
              IN  tokens[k] = SubSeq(code, i, TokenEnd(code, i))
        /\ \A k \in 1..Len(tokens) :
              /\ tokens[k] # <<>>
              /\ \A j \in 1..Len(tokens[k]) : tokens[k][j] \notin Whitespace
              /\ (\E j \in 1..Len(tokens[k]) : IsParenChar(tokens[k][j]))
                    => IsParen(tokens[k])
        /\ code = <<>> => tokens = <<>>

\* parens touching a run of two characters, whitespace around the whole
C5_Witness ==
    /\ pc = "parse"
    /\ code = <<" ", "(", "a", "1", ")">>
    /\ tokens = <<LParen, <<"a", "1">>, RParen>>

(***************************************************************************)
(* C6: render writes a List as '(', its children's renderings in order     *)
(* with exactly one space between two of them, and ')'; an Int as its      *)
(* plain decimal digits; a Float as 'f' and then its decimal               *)
(* representation; a Symbol as its text between double quotes, unchanged.  *)
(***************************************************************************)
\* where the rendering of child i of a list starts in the list's rendering
RECURSIVE ChildAt(_, _)
ChildAt(n, i) ==
    IF i = 1 THEN 2
    ELSE ChildAt(n, i - 1) + Len(DisplayNode(n.items[i - 1])) + 1

ListRendered(n, text) ==
    LET k == Len(n.items)
    IN  /\ Len(text) >= 2
        /\ text[1] = "("
        /\ text[Len(text)] = ")"
        /\ Len(text) = IF k = 0 THEN 2
                       ELSE ChildAt(n, k) + Len(DisplayNode(n.items[k]))
        /\ \A i \in 1..k :
              /\ SubSeq(text, ChildAt(n, i),
                        ChildAt(n, i) + Len(DisplayNode(n.items[i])) - 1)
                    = DisplayNode(n.items[i])
              /\ i < k => text[ChildAt(n, i) + Len(DisplayNode(n.items[i]))] = " "

\* text is the decimal numeral of the integer a, with no sign but '-', no
\* leading zero and nothing else
IntRendered(a, text) ==
    LET body == IF a.neg THEN Tail(text) ELSE text
    IN  /\ text # <<>>
        /\ a.neg => Head(text) = "-"
        /\ body # <<>> /\ AllDigits(body)
        /\ Len(body) > 1 => Head(body) # "0"
        /\ ToDigits(body) = (IF a.mag = <<>> THEN <<0>> ELSE a.mag)

\* text is 'f' and then a decimal numeral, without exponent, of the float a
FloatRendered(a, text) ==
    /\ text # <<>>
    /\ Head(text) = "f"
    /\ CASE a.cls = "nan" -> Tail(text) = <<"N", "a", "N">>
          [] a.cls = "inf" ->
                Tail(text) = (IF a.neg THEN <<"-", "i", "n", "f">> ELSE <<"i", "n", "f">>)
          [] OTHER ->
                /\ \A i \in 2..Len(text) : text[i] \in Digits \cup {"-", "."}
                /\ ParseFloat(Tail(text)) =
                      [ok |-> TRUE, cls |-> "num", neg |-> a.neg,
                       mant |-> a.mant, exp |-> a.exp]

SymbolRendered(a, text) ==
    /\ Len(text) = Len(a.text) + 2
    /\ text[1] = "\""
    /\ text[Len(text)] = "\""
    /\ SubSeq(text, 2, Len(text) - 1) = a.text

C6_RenderShape ==
    pc = "printed" =>
        CASE ast.type = "List" -> ListRendered(ast, printed)
          [] ast.atom.kind = "Int" -> IntRendered(ast.atom, printed)
          [] ast.atom.kind = "Float" -> FloatRendered(ast.atom, printed)
          [] OTHER -> SymbolRendered(ast.atom, printed)

\* a list of a float and an empty list was printed
C6_Witness ==
    /\ pc = "printed"
    /\ ast = NodeList(<<NodeAtom(AtomFloat("num", FALSE, <<5>>, 0 - 1)), NodeList(<<>>)>>)
    /\ printed = <<"(", "f", "0", ".", "5", " ", "(", ")", ")">>

(***************************************************************************)
(* C7: parse_tokens terminates on every token sequence: the scan index     *)
(* grows at every iteration and every recursive call is given a shorter    *)
(* slice; it returns one outcome, a whole Node or an error, never a part   *)
(* of a tree; and the outcome is a function of the input.                  *)
(* Termination is stated by a variant: until the program has ended exactly *)
(* one step can be taken, and every step of parse_tokens lowers a natural  *)
(* number.                                                                 *)
(***************************************************************************)
\* every leaf of n is a classified atom and every list a sequence of such
RECURSIVE WholeNode(_)
WholeNode(n) ==
    \/ n.type = "Atom" /\ n.atom.kind \in {"Int", "Float", "Symbol"}
    \/ n.type = "List" /\ \A i \in 1..Len(n.items) : WholeNode(n.items[i])

OneOutcome ==
    Finished =>
        /\ stack = <<>>
        /\ retval = NoResult
        /\ \/ result.tag = "Ok" /\ WholeNode(result.node) /\ ast # NoNode
           \/ /\ result.tag = "Err"
              /\ result.err \in {"Empty", "UnmatchedParen"}
              /\ pc = "exit" => ast = NoNode

\* the conditions under which the program takes a step: the cases of
\* parse_tokens' tests, the return of a call, and the driver's positions
StepsEnabled ==
    {i \in 1..16 :
        CASE i = 1 -> AtStart
          [] i = 2 -> NoFirst
          [] i = 3 -> LoneAtom
          [] i = 4 -> NotLoneAtom
          [] i = 5 -> LastNotClose
          [] i = 6 -> LastClose
          [] i = 7 -> NoMatch
          [] i = 8 -> ElementFound
          [] i = 9 -> NoMoreElements
          [] i = 10 -> Returned /\ retval.tag = "Ok"
          [] i = 11 -> Returned /\ retval.tag = "Err"
          [] i = 12 -> ReturnedToDriver /\ pc = "parse" /\ retval.tag = "Ok"
          [] i = 13 -> ReturnedToDriver /\ pc = "parse" /\ retval.tag = "Err"
          [] i = 14 -> pc = "print"
          [] i = 15 -> pc = "printed"
          [] OTHER -> ReturnedToDriver /\ pc = "reparse"}

Terminated == pc \in {"exit", "done"}

Deterministic == Cardinality(StepsEnabled) = (IF Terminated THEN 0 ELSE 1)

\* an upper bound of the steps the calls on the stack have left: 3 for
\* every token still to scan, and the returns
FrameWork(f) ==
    CASE f.at = "entry" -> IF 3 * Len(f.tokens) - 1 > 2 THEN 3 * Len(f.tokens) - 1 ELSE 2
      [] f.at = "loop" -> 3 * (Len(f.inner) - f.element_start) + 2
      [] OTHER -> 3 * (Len(f.inner) - (f.element_end + 1)) + 2

RECURSIVE StackWork(_)
StackWork(st) ==
    IF st = <<>> THEN 0 ELSE FrameWork(st[Len(st)]) + StackWork(SubSeq(st, 1, Len(st) - 1))

Work(st, rv) == StackWork(st) + (IF rv = NoResult THEN 0 ELSE 1)

Progress ==
    \* an iteration of the scan ends with element_start larger than it began
    /\ (Len(stack') = Len(stack) /\ stack # <<>>
          /\ Top.at = "call" /\ stack'[Len(stack')].at = "loop")
         => stack'[Len(stack')].element_start > Top.element_start
    \* a recursive call is given fewer tokens than the call that makes it
    /\ (Len(stack') = Len(stack) + 1 /\ stack # <<>>)
         => Len(stack'[Len(stack')].tokens) < Len(Top.tokens)
    \* every step of parse_tokens uses up some of the work left
    /\ (pc \in {"parse", "reparse"} /\ pc' = pc)
         => Work(stack', retval') < Work(stack, retval)

C7_TotalDeterministic ==
    /\ []OneOutcome
    /\ []Deterministic
    /\ [](Work(stack, retval) >= 0)
    /\ [][Progress]_vars

\* a parse that went two calls deep and through two iterations has returned
C7_Witness ==
    /\ pc = "print"
    /\ tokens = <<LParen, <<"a">>, LParen, <<"a">>, RParen, RParen>>
    /\ result.tag = "Ok"

(***************************************************************************)
(* C8: on a slice that starts with '(' find_matching_paren returns the     *)
(* least index at which as many ')' as '(' have been met, the place of the *)
(* ')' matching that '(', and None exactly when there is none; the element *)
(* runs from the '(' to that ')' inclusive, and None makes parse_tokens    *)
(* return UnmatchedParen.                                                  *)
(***************************************************************************)
\* '(' less ')' among the first k tokens of ts
Depth(ts, k) ==
    Cardinality({i \in 1..k : ts[i] = LParen}) - Cardinality({i \in 1..k : ts[i] = RParen})

\* the indexes, from 0, at which the depth is back to 0
Closings(ts) == {i \in 0..(Len(ts) - 1) : Depth(ts, i + 1) = 0}

MatchingParen(ts) ==
    IF Closings(ts) = {} THEN None
    ELSE CHOOSE i \in Closings(ts) : \A j \in Closings(ts) : i <= j

\* the frame's scan is at an element that starts with '('
AtOpenParen(f) ==
    /\ f.at \in {"loop", "call"}
    /\ f.element_start < Len(f.inner)
    /\ f.inner[f.element_start + 1] = LParen

MatchFound ==
    \A i \in 1..Len(stack) :
        AtOpenParen(stack[i]) =>
            /\ find_matching_paren(Rest(stack[i])) = MatchingParen(Rest(stack[i]))
            /\ stack[i].at = "call" =>
                  stack[i].element_end - stack[i].element_start
                      = MatchingParen(Rest(stack[i]))

ElementSpans ==
    \A i \in 1..(Len(stack) - 1) :
        stack[i].at = "call" =>
            stack[i + 1].tokens =
                SubSeq(stack[i].inner, stack[i].element_start + 1,
                       stack[i].element_end + 1)

NoMatchIsUnmatchedParen ==
    (Running /\ AtOpenParen(Top) /\ Top.at = "loop"
        /\ MatchingParen(Rest(Top)) = None)
      => (stack' = Pop /\ retval' = Err("UnmatchedParen"))

C8_MatchingParen ==
    /\ []MatchFound
    /\ []ElementSpans
    /\ [][NoMatchIsUnmatchedParen]_vars

\* an element whose matching ')' is not the first ')' after its '('
C8_Witness ==
    /\ stack # <<>>
    /\ AtOpenParen(Top)
    /\ Top.at = "loop"
    /\ Rest(Top) = <<LParen, LParen, RParen, RParen>>
    /\ find_matching_paren(Rest(Top)) = 3

(***************************************************************************)
(* C9: parse_tokens indexes nothing out of range: the slice                *)
(* tokens[1..len-1] is taken of two tokens or more, and at every iteration *)
(* of the scan 0 <= element_start <= element_end < the inner slice's       *)
(* length, so the element's slice is in range and not empty.               *)
(***************************************************************************)
C9_InRange ==
    /\ pc # "panic"
    /\ \A i \in 1..Len(stack) :
          LET f == stack[i]
          IN  /\ f.at \in {"loop", "call"} =>
                    /\ Len(f.tokens) >= 2
                    /\ Len(f.inner) = Len(f.tokens) - 2
                    /\ 0 <= f.element_start
                    /\ f.element_start <= Len(f.inner)
              /\ (f.at = "loop" /\ i = Len(stack) /\ ElementFound) =>
                    /\ f.element_start <= ElementEnd(f)
                    /\ ElementEnd(f) < Len(f.inner)
              /\ f.at = "call" =>
                    /\ f.element_start <= f.element_end
                    /\ f.element_end < Len(f.inner)
                    /\ i < Len(stack) =>
                          Len(stack[i + 1].tokens) = f.element_end - f.element_start + 1

\* the scan took a list that ends the inner slice as its second element
C9_Witness ==
    /\ stack # <<>>
    /\ Top.at = "call"
    /\ Top.element_start = 1
    /\ Top.element_end = Len(Top.inner) - 1
    /\ Top.element_end > Top.element_start

(***************************************************************************)
(* C10: for every tree t that parse returns, parse(render(t)) succeeds,    *)
(* with the lists of t and in the place of every atom of t the same Int,   *)
(* or a Symbol of the rendered text of the Float or Symbol; so it is t     *)
(* exactly when t holds only Lists and Ints.                               *)
(***************************************************************************)
RECURSIVE Reread(_, _)
Reread(t, u) ==
    IF t.type = "List"
    THEN /\ u.type = "List"
         /\ Len(u.items) = Len(t.items)
         /\ \A i \in 1..Len(t.items) : Reread(t.items[i], u.items[i])
    ELSE IF t.atom.kind = "Int" THEN u = t
    ELSE u = NodeAtom(AtomSymbol(DisplayAtom(t.atom)))

RECURSIVE OnlyInts(_)
OnlyInts(t) ==
    IF t.type = "List" THEN \A i \in 1..Len(t.items) : OnlyInts(t.items[i])
    ELSE t.atom.kind = "Int"

C10_RenderThenParse ==
    pc = "done" =>
        /\ result.tag = "Ok"
        /\ Reread(ast, result.node)
        /\ result.node = ast <=> OnlyInts(ast)

\* a list of an Int and a nested list of a Float was printed and parsed again
C10_Witness ==
    /\ pc = "done"
    /\ ast = NodeList(<<NodeAtom(AtomInt(TRUE, <<7>>)),
                        NodeList(<<NodeAtom(AtomFloat("num", FALSE, <<5>>, 0 - 1))>>)>>)
    /\ result = Ok(NodeList(<<NodeAtom(AtomInt(TRUE, <<7>>)),
                              NodeList(<<NodeAtom(AtomSymbol(<<"f", "0", ".", "5">>))>>)>>))

=============================================================================
